---- MODULE Spec2Model ----
(***************************************************************************)
(* Extension / ExtensionBuilder of core/extensions.rs as a state machine.  *)
(* One ExtensionBuilder is reused to build several Extensions; every       *)
(* method of both types is one action.  Each method is an operator from    *)
(* the receiver (and arguments) to the receiver after the call and the     *)
(* value returned, translated from its body.                               *)
(***************************************************************************)
EXTENDS Naturals, Sequences, FiniteSets

\* ------------------------------------------------------------------ bounds
\* calls in one run that declare or create: js, ops, state, middleware,
\* build and Extension::default
MaxCalls == 3

\* ------------------------------------------------------- values and inputs
\* Option<T>
None == [tag |-> "None"]
Some(v) == [tag |-> "Some", val |-> v]

\* Result<(), AnyError>
Ok == [tag |-> "Ok"]
Err(e) == [tag |-> "Err", val |-> e]

\* How a call ends: it returns a value, or it panics with a message.
Return(v) == [kind |-> "return", val |-> v]
Panic(m) == [kind |-> "panic", val |-> m]

\* SourcePair = (file name, source text).  The n-th builder call declares
\* the files numbered <<n, 1>>, <<n, 2>>, ...
SourcePairOf(n, i) == << <<n, i>>, "source" >>
\* the vector of k source pairs handed to the n-th builder call
JsArg(n, k) == [i \in 1..k |-> SourcePairOf(n, i)]

\* OpPair = (name, Box<OpFn>).  A box is owned by one place at a time, so
\* every callable carries the identity of its box; tags records the
\* middleware wrapped around it.
OpNameOf(id) == IF id % 2 = 1 THEN "op_a" ELSE "op_b"
NewOp(id) == << OpNameOf(id), [id |-> id, tags |-> <<>>] >>
\* the vector of k freshly boxed ops whose ids follow `from`
NewOps(from, k) == [i \in 1..k |-> NewOp(from + i)]

\* Closures handed to ExtensionBuilder::state.  The state container holds
\* one flag and every initializer flips it, so that each invocation shows;
\* s_err fails after writing it.
OpStateFns == {"s_ok", "s_err"}
CallOpStateFn(f, st) ==
  [state |-> ~st,
   ret   |-> IF f = "s_err" THEN Err("state init failed") ELSE Ok]

\* Closures handed to ExtensionBuilder::middleware: each wraps the callable
\* it is given and leaves its own tag on it.
OpMiddlewareFns == {"m_a", "m_b"}
CallMiddlewareFn(m, name, opfn) == [opfn EXCEPT !.tags = Append(@, m)]

\* ---------------------------------------------------------------- Extension
ExtensionDefault ==
  [js_files      |-> None,
   ops           |-> None,
   opstate_fn    |-> None,
   middleware_fn |-> None,
   initialized   |-> FALSE]

\* init_js moving the list out instead of cloning it
init_js_take(self) ==
  [self |-> [self EXCEPT !.js_files = None],
   ret  |-> Return(IF self.js_files.tag = "Some" THEN self.js_files.val ELSE <<>>)]

init_js(self) ==
  [self |-> self,
   ret  |-> Return(IF self.js_files.tag = "Some" THEN self.js_files.val ELSE <<>>)]

\* init_ops without the guard on initialized
init_ops_unguarded(self) ==
  [self |-> [self EXCEPT !.initialized = TRUE, !.ops = None],
   ret  |-> Return(self.ops)]

\* init_ops taking the middleware along with the table
init_ops_takes_middleware(self) ==
  IF self.initialized
    THEN [self |-> self,
          ret  |-> Panic("init_ops called twice: not idempotent or correct")]
    ELSE [self |-> [self EXCEPT !.initialized = TRUE, !.ops = None,
                                !.middleware_fn = None],
          ret  |-> Return(self.ops)]

\* init_ops emptying the table before it reads it
init_ops_cleared_first(self) ==
  IF self.initialized
    THEN [self |-> self,
          ret  |-> Panic("init_ops called twice: not idempotent or correct")]
    ELSE [self |-> [self EXCEPT !.initialized = TRUE, !.ops = None],
          ret  |-> Return(None)]

\* init_ops returning a copy of the table and keeping it
init_ops_keep(self) ==
  IF self.initialized
    THEN [self |-> self,
          ret  |-> Panic("init_ops called twice: not idempotent or correct")]
    ELSE [self |-> [self EXCEPT !.initialized = TRUE],
          ret  |-> Return(self.ops)]

init_ops(self) ==
  IF self.initialized
    THEN [self |-> self,
          ret  |-> Panic("init_ops called twice: not idempotent or correct")]
    ELSE [self |-> [self EXCEPT !.initialized = TRUE, !.ops = None],
          ret  |-> Return(self.ops)]

\* init_state dropping the initializer's result
init_state_swallow(self, state) ==
  IF self.opstate_fn.tag = "Some"
    THEN LET r == CallOpStateFn(self.opstate_fn.val, state)
         IN  [self |-> self, state |-> r.state, ret |-> Return(Ok)]
    ELSE [self |-> self, state |-> state, ret |-> Return(Ok)]

init_state(self, state) ==
  IF self.opstate_fn.tag = "Some"
    THEN LET r == CallOpStateFn(self.opstate_fn.val, state)
         IN  [self |-> self, state |-> r.state, ret |-> Return(r.ret)]
    ELSE [self |-> self, state |-> state, ret |-> Return(Ok)]

\* init_middleware clearing the callback without handing it out
init_middleware_lost(self) ==
  [self |-> [self EXCEPT !.middleware_fn = None],
   ret  |-> Return(None)]

\* init_middleware cloning the callback instead of taking it
init_middleware_keep(self) ==
  [self |-> self,
   ret  |-> Return(self.middleware_fn)]

init_middleware(self) ==
  [self |-> [self EXCEPT !.middleware_fn = None],
   ret  |-> Return(self.middleware_fn)]

\* --------------------------------------------------------- ExtensionBuilder
ExtensionBuilderDefault ==
  [js |-> <<>>, ops |-> <<>>, state |-> None, middleware |-> None]

js(self, js_files) == [self EXCEPT !.js = @ \o js_files]

\* ops replacing the accumulated list instead of extending it
ops_replace(self, op_pairs) == [self EXCEPT !.ops = op_pairs]

ops(self, op_pairs) == [self EXCEPT !.ops = @ \o op_pairs]

\* state keeping a callback that was set before (first write wins)
state_keep_first(self, opstate_fn) ==
  IF self.state.tag = "Some" THEN self ELSE [self EXCEPT !.state = Some(opstate_fn)]

state(self, opstate_fn) == [self EXCEPT !.state = Some(opstate_fn)]

middleware(self, middleware_fn) == [self EXCEPT !.middleware = Some(middleware_fn)]

\* build cloning the source list and leaving it in the builder
build_keep_js(self) ==
  [self |-> [ExtensionBuilderDefault EXCEPT !.js = self.js],
   ret  |-> [js_files      |-> Some(self.js),
             ops           |-> Some(self.ops),
             opstate_fn    |-> self.state,
             middleware_fn |-> self.middleware,
             initialized   |-> FALSE]]

\* build handing out an Extension already marked initialized
build_initialized(self) ==
  [self |-> ExtensionBuilderDefault,
   ret  |-> [js_files      |-> Some(self.js),
             ops           |-> Some(self.ops),
             opstate_fn    |-> self.state,
             middleware_fn |-> self.middleware,
             initialized   |-> TRUE]]

\* build cloning the op list and leaving it in the builder
build_keep_ops(self) ==
  [self |-> [ExtensionBuilderDefault EXCEPT !.ops = self.ops],
   ret  |-> [js_files      |-> Some(self.js),
             ops           |-> Some(self.ops),
             opstate_fn    |-> self.state,
             middleware_fn |-> self.middleware,
             initialized   |-> FALSE]]

\* build cloning the callbacks and leaving them in the builder
build_keep_state(self) ==
  [self |-> [ExtensionBuilderDefault EXCEPT !.state = self.state,
                                            !.middleware = self.middleware],
   ret  |-> [js_files      |-> Some(self.js),
             ops           |-> Some(self.ops),
             opstate_fn    |-> self.state,
             middleware_fn |-> self.middleware,
             initialized   |-> FALSE]]

build(self) ==
  [self |-> ExtensionBuilderDefault,
   ret  |-> [js_files      |-> Some(self.js),
             ops           |-> Some(self.ops),
             opstate_fn    |-> self.state,
             middleware_fn |-> self.middleware,
             initialized   |-> FALSE]]

\* -------------------------------------------------------------------- state
VARIABLES
  builder,   \* the ExtensionBuilder
  exts,      \* the Extensions created so far, in creation order
  opstate,   \* the flag held by the OpState container
  nextId,    \* number of op boxes created so far
  table,     \* the host's dispatch table: the op pairs it has registered
  acc,       \* number of declaring and creating calls so far
  log,       \* history: builder calls since the previous build()
  meta,      \* history, per Extension: how it was made and what was called
  last       \* history: the last call, its receiver, argument and outcome

vars == <<builder, exts, opstate, nextId, table, acc, log, meta, last>>

\* A call's record: the method, the Extension it acted on (0: none), what
\* held before it (arg) and how it ended (ret).
Call(op, ext, arg, ret) == [op |-> op, ext |-> ext, arg |-> arg, ret |-> ret]
\* js, ops, state and middleware return the builder itself
BuilderCall(before) == Call("builder", 0, before, Return("self"))

Init ==
  /\ builder = ExtensionBuilderDefault
  /\ exts = <<>>
  /\ opstate = FALSE
  /\ nextId = 0
  /\ table = <<>>
  /\ acc = 0
  /\ log = <<>>
  /\ meta = <<>>
  /\ last = BuilderCall(<<>>)

\* ------------------------------------------------------------ builder calls
Logged(op, arg) == [op |-> op, arg |-> arg]

CanCall == acc < MaxCalls

Js ==
  \E k \in 0..2 :
    /\ CanCall
    /\ builder' = js(builder, JsArg(acc + 1, k))
    /\ log' = Append(log, Logged("js", JsArg(acc + 1, k)))
    /\ acc' = acc + 1
    /\ last' = BuilderCall(exts)
    /\ UNCHANGED <<exts, opstate, nextId, table, meta>>

Ops ==
  \E k \in 0..2 :
    /\ CanCall
    /\ builder' = ops(builder, NewOps(nextId, k))
    /\ log' = Append(log, Logged("ops", NewOps(nextId, k)))
    /\ nextId' = nextId + k
    /\ acc' = acc + 1
    /\ last' = BuilderCall(exts)
    /\ UNCHANGED <<exts, opstate, table, meta>>

State ==
  \E f \in OpStateFns :
    /\ CanCall
    /\ builder' = state(builder, f)
    /\ log' = Append(log, Logged("state", f))
    /\ acc' = acc + 1
    /\ last' = BuilderCall(exts)
    /\ UNCHANGED <<exts, opstate, nextId, table, meta>>

Middleware ==
  \E m \in OpMiddlewareFns :
    /\ CanCall
    /\ builder' = middleware(builder, m)
    /\ log' = Append(log, Logged("middleware", m))
    /\ acc' = acc + 1
    /\ last' = BuilderCall(exts)
    /\ UNCHANGED <<exts, opstate, nextId, table, meta>>

\* built: made by build() (else by Extension::default()); log: the builder
\* calls it was built from; calledOps: init_ops has been called on it;
\* mwTaken: init_middleware has handed out its callback; handedOps: the op
\* pairs its init_ops calls have returned so far.
NewMeta(built, l) ==
  [built |-> built, log |-> l, calledOps |-> FALSE, mwTaken |-> FALSE,
   handedOps |-> <<>>]

Build ==
  /\ CanCall
  /\ acc' = acc + 1
  /\ LET r == build(builder)
     IN  /\ builder' = r.self
         /\ exts' = Append(exts, r.ret)
  /\ meta' = Append(meta, NewMeta(TRUE, log))
  /\ log' = <<>>
  /\ last' = Call("build", Len(exts) + 1, exts, Return("extension"))
  /\ UNCHANGED <<opstate, nextId, table>>

\* #[derive(Default)]: Extension::default()
Default ==
  /\ CanCall
  /\ acc' = acc + 1
  /\ exts' = Append(exts, ExtensionDefault)
  /\ meta' = Append(meta, NewMeta(FALSE, <<>>))
  /\ last' = Call("default", Len(exts) + 1, exts, Return("extension"))
  /\ UNCHANGED <<builder, opstate, nextId, table, log>>

\* ---------------------------------------------------------- Extension calls
\* Any caller may call any method on any Extension at any time.  A panic
\* of init_ops unwinds before a field is written: the Extension stays as
\* it was and a caller that catches the unwind goes on.
InitJs(e) ==
  LET r == init_js(exts[e])
  IN  /\ exts' = [exts EXCEPT ![e] = r.self]
      /\ last' = Call("init_js", e, exts[e], r.ret)
      /\ UNCHANGED <<builder, opstate, nextId, table, acc, log, meta>>

\* the op pairs a call of init_ops gave its caller
PairsIn(ret) ==
  IF ret.kind = "return"
  THEN (IF ret.val.tag = "Some" THEN ret.val.val ELSE <<>>)
  ELSE <<>>

InitOps(e) ==
  LET r == init_ops(exts[e])
  IN  /\ exts' = [exts EXCEPT ![e] = r.self]
      /\ meta' = [meta EXCEPT ![e].calledOps = TRUE,
                              ![e].handedOps = @ \o PairsIn(r.ret)]
      /\ last' = Call("init_ops", e, meta[e].calledOps, r.ret)
      /\ UNCHANGED <<builder, opstate, nextId, table, acc, log>>

InitState(e) ==
  LET r == init_state(exts[e], opstate)
  IN  /\ exts' = [exts EXCEPT ![e] = r.self]
      /\ opstate' = r.state
      /\ last' = Call("init_state", e, [self |-> exts[e], state |-> opstate], r.ret)
      /\ UNCHANGED <<builder, nextId, table, acc, log, meta>>

InitMiddleware(e) ==
  LET r == init_middleware(exts[e])
  IN  /\ exts' = [exts EXCEPT ![e] = r.self]
      /\ meta' = [meta EXCEPT ![e].mwTaken = @ \/ r.ret.val.tag = "Some"]
      /\ last' = Call("init_middleware", e, meta[e].mwTaken, r.ret)
      /\ UNCHANGED <<builder, opstate, nextId, table, acc, log>>

Next ==
  \/ Js
  \/ Ops
  \/ State
  \/ Middleware
  \/ Build
  \/ Default
  \/ \E e \in DOMAIN exts : InitJs(e)
  \/ \E e \in DOMAIN exts : InitOps(e)
  \/ \E e \in DOMAIN exts : InitState(e)
  \/ \E e \in DOMAIN exts : InitMiddleware(e)

Spec == Init /\ [][Next]_vars

\* ------------------------------------------------------------------ the host
\* The runtime that owns the Extensions sets each one up once, calling
\* init_js, init_middleware, init_ops and init_state in that order; it
\* applies the middleware it was handed to every entry of the op table it
\* was handed and merges the result into its dispatch table.
Wrap(mw, pairs) ==
  [i \in DOMAIN pairs |->
     IF mw.tag = "Some"
       THEN << pairs[i][1], CallMiddlewareFn(mw.val, pairs[i][1], pairs[i][2]) >>
       ELSE pairs[i]]

HostStartup(e) ==
  LET j == init_js(exts[e])
      m == init_middleware(j.self)
      o == init_ops(m.self)
      s == init_state(o.self, opstate)
      handed == IF o.ret.val.tag = "Some" THEN o.ret.val.val ELSE <<>>
  IN  /\ ~meta[e].calledOps
      /\ o.ret.kind = "return"
      /\ exts' = [exts EXCEPT ![e] = s.self]
      /\ table' = table \o Wrap(m.ret.val, handed)
      /\ opstate' = s.state
      /\ meta' = [meta EXCEPT ![e].calledOps = TRUE,
                              ![e].handedOps = @ \o handed,
                              ![e].mwTaken = @ \/ m.ret.val.tag = "Some"]
      /\ last' = Call("host", e, meta[e].mwTaken, s.ret)
      /\ UNCHANGED <<builder, nextId, acc, log>>

NextHost ==
  \/ Next
  \/ \E e \in DOMAIN exts : HostStartup(e)

SpecHost == Init /\ [][NextHost]_vars

\* ------------------------------------------------------------------ op_ident
\* A &'static str is modelled as the sequence of its characters; offsets are
\* byte offsets counted from 0, as str::rfind and str::get count them.
PathSep == <<":", ":">>
GenericSep == <<":", ":", "<">>
OpPrefix == <<"o", "p", "_">>

\* pat occurs in s at offset i
OccursAt(s, pat, i) ==
  /\ i + Len(pat) <= Len(s)
  /\ SubSeq(s, i + 1, i + Len(pat)) = pat

Offsets(s, pat) == {i \in 0..Len(s) : OccursAt(s, pat, i)}

\* str::find: the offset of the first occurrence
find(s, pat) ==
  IF Offsets(s, pat) = {} THEN None
  ELSE Some(CHOOSE i \in Offsets(s, pat) : \A j \in Offsets(s, pat) : i <= j)

\* str::rfind: the offset of the last occurrence
rfind(s, pat) ==
  IF Offsets(s, pat) = {} THEN None
  ELSE Some(CHOOSE i \in Offsets(s, pat) : \A j \in Offsets(s, pat) : j <= i)

\* str::get(from..to).unwrap(), on offsets that lie inside s
get(s, from, to) == SubSeq(s, from + 1, to)

starts_with(s, pat) == OccursAt(s, pat, 0)

op_ident(ident_path) ==
  LET end == rfind(ident_path, GenericSep)
      stripped == get(ident_path, 0,
                      IF end.tag = "Some" THEN end.val ELSE Len(ident_path))
      start == rfind(stripped, PathSep)
      name == get(stripped, IF start.tag = "Some" THEN start.val + 2 ELSE 0,
                  Len(stripped))
  IN IF starts_with(name, OpPrefix) THEN Return(name)
     ELSE Panic("Op missing 'op_' prefix")

\* The expressions declare_ops! is given: a path of up to MaxSegs identifiers,
\* with or without a generic parameter list.
MaxSegs == 3

Idents ==
  { <<"f", "o", "o">>, <<"o", "p", "_", "b", "a", "r">>, <<"o", "p">>,
    <<"x", "o", "p", "_">> }

Params ==
  { <<"X">>,
    <<"b", ":", ":", "X">>,
    <<"V", ":", ":", "<", "X", ">">>,
    <<"b", ":", ":", "o", "p", "_", "b", ":", ":", "<", "X", ">">> }

Paths ==
  { [segs |-> s, param |-> p, spaced |-> b] :
      s \in UNION {[1..n -> Idents] : n \in 1..MaxSegs},
      p \in {None} \cup {Some(t) : t \in Params},
      b \in BOOLEAN }

RECURSIVE Join(_, _)
Join(segs, sep) ==
  IF Len(segs) = 1 THEN segs[1]
  ELSE segs[1] \o sep \o Join(Tail(segs), sep)

\* stringify!($opfn): the tokens of the expression, either as written
\* (a::op_name::<T>) or separated by spaces (a :: op_name < T >), depending
\* on the toolchain's token printer
stringify(path) ==
  IF path.spaced
  THEN Join(path.segs, <<" ">> \o PathSep \o <<" ">>)
       \o (IF path.param.tag = "Some"
           THEN <<" ", "<", " ">> \o path.param.val \o <<" ", ">">>
           ELSE <<>>)
  ELSE Join(path.segs, PathSep)
       \o (IF path.param.tag = "Some"
           THEN GenericSep \o path.param.val \o <<">">>
           ELSE <<>>)

\* spaced output only of parameter lists that are one token
Stringified ==
  {p \in Paths : p.spaced => p.param \in {None, Some(<<"X">>)}}

InitIdent ==
  /\ builder = ExtensionBuilderDefault
  /\ exts = <<>>
  /\ opstate = FALSE
  /\ nextId = 0
  /\ table = <<>>
  /\ acc = 0
  /\ log = <<>>
  /\ meta = <<>>
  /\ \E p \in Stringified : last = Call("stringify", 0, p, Return(stringify(p)))

\* declare_ops!: op_ident(stringify!($opfn))
OpIdent ==
  /\ last.op = "stringify"
  /\ last' = Call("op_ident", 0, last.arg, op_ident(last.ret.val))
  /\ UNCHANGED <<builder, exts, opstate, nextId, table, acc, log, meta>>

NextIdent == OpIdent

SpecIdent == InitIdent /\ [][NextIdent]_vars

\* -------------------------------------------------------------- SerializablePkg
\* Result::Ok carrying a value
OkVal(v) == [tag |-> "Ok", val |-> v]

\* the types impl_via_primitive! is invoked on
PrimitiveTypes ==
  {"()", "bool", "i8", "i16", "i32", "i64", "u8", "u16", "u32", "u64",
   "f32", "f64"}

\* $T => $minval
minval(T) ==
  CASE T = "()" -> "Unit"
    [] T = "bool" -> "Bool"
    [] T = "i8" -> "Int8"
    [] T = "i16" -> "Int16"
    [] T = "i32" -> "Int32"
    [] T = "i64" -> "Int64"
    [] T = "u8" -> "UInt8"
    [] T = "u16" -> "UInt16"
    [] T = "u32" -> "UInt32"
    [] T = "u64" -> "UInt64"
    [] T = "f32" -> "Float32"
    [] T = "f64" -> "Float64"

\* A value: its static type, its content, and whether the engine can
\* represent it. Values of the primitive types always are representable.
Value(T, v, r) == [ty |-> T, val |-> v, representable |-> r]

Values ==
  { Value("()", "()", TRUE),
    Value("bool", "true", TRUE), Value("bool", "false", TRUE),
    Value("i8", "-128", TRUE), Value("i8", "127", TRUE),
    Value("i16", "-32768", TRUE), Value("i16", "32767", TRUE),
    Value("i32", "-7", TRUE), Value("i32", "2147483647", TRUE),
    Value("i64", "-1", TRUE), Value("i64", "9007199254740993", TRUE),
    Value("u8", "0", TRUE), Value("u8", "255", TRUE),
    Value("u16", "0", TRUE), Value("u16", "65535", TRUE),
    Value("u32", "0", TRUE), Value("u32", "4294967295", TRUE),
    Value("u64", "0", TRUE), Value("u64", "18446744073709551615", TRUE),
    Value("f32", "3.5", TRUE), Value("f32", "NaN", TRUE),
    Value("f64", "3.5", TRUE), Value("f64", "-0.0", TRUE),
    Value("String", "hello", TRUE),
    Value("Vec<u8>", "[1, 2]", TRUE),
    Value("Record", "{ n: 1 }", TRUE),
    Value("Record", "{ n: <unsupported magnitude> }", FALSE),
    Value("Record", "{ s: <cyclic> }", FALSE) }

\* SerializablePkg::MinValue(MinValue::$minval(x))
PkgMinValue(case, x) == [pkg |-> "MinValue", case |-> case, val |-> x]
\* SerializablePkg::Serializable(Box::new(x))
PkgSerializable(x) == [pkg |-> "Serializable", case |-> "Box", val |-> x]

\* Method lookup on a receiver expression of type &..&Wrap<T> with n
\* references probes, in this order, the receiver types
\*   n refs (by value), n+1 refs (autoref), n-1 refs, n refs, ..., 0, 1
\* and stops at the first one for which a method to_pkg is in scope.
ProbeSteps(n) ==
  [i \in 1..(2 * (n + 1)) |->
     IF i % 2 = 1 THEN n - ((i - 1) \div 2) ELSE (n + 1) - ((i - 2) \div 2)]

\* references in the expression (&&Wrap(RefCell::new(x)))
ReceiverRefs == 2
\* references in the type of &self for `impl ViaPrimitive for &&Wrap<$T>`
ViaPrimitiveSelfRefs == 3
\* references in the type of &self for `impl ViaSerializable for &Wrap<T>`
ViaSerializableSelfRefs == 2

\* the traits whose to_pkg takes a receiver of `refs` references to Wrap<T>
MethodsAt(refs, T) ==
  {tr \in {"ViaPrimitive", "ViaSerializable"} :
     \/ tr = "ViaPrimitive" /\ refs = ViaPrimitiveSelfRefs /\ T \in PrimitiveTypes
     \/ tr = "ViaSerializable" /\ refs = ViaSerializableSelfRefs}

Resolve(n, T) ==
  LET steps == ProbeSteps(n)
      hits == {i \in DOMAIN steps : MethodsAt(steps[i], T) # {}}
      first == CHOOSE i \in hits : \A j \in hits : i <= j
  IN CHOOSE tr \in MethodsAt(steps[first], T) : TRUE

to_pkg(x) ==
  IF Resolve(ReceiverRefs, x.ty) = "ViaPrimitive"
  THEN PkgMinValue(minval(x.ty), x)
  ELSE PkgSerializable(x)

\* impl serde::Serialize for MinValue: the serializer method called
serialize(self) ==
  CASE self.case = "Unit" -> [method |-> "serialize_unit", val |-> self.val.val]
    [] self.case = "Bool" -> [method |-> "serialize_bool", val |-> self.val.val]
    [] self.case = "Int8" -> [method |-> "serialize_i8", val |-> self.val.val]
    [] self.case = "Int16" -> [method |-> "serialize_i16", val |-> self.val.val]
    [] self.case = "Int32" -> [method |-> "serialize_i32", val |-> self.val.val]
    [] self.case = "Int64" -> [method |-> "serialize_i64", val |-> self.val.val]
    [] self.case = "UInt8" -> [method |-> "serialize_u8", val |-> self.val.val]
    [] self.case = "UInt16" -> [method |-> "serialize_u16", val |-> self.val.val]
    [] self.case = "UInt32" -> [method |-> "serialize_u32", val |-> self.val.val]
    [] self.case = "UInt64" -> [method |-> "serialize_u64", val |-> self.val.val]
    [] self.case = "Float32" -> [method |-> "serialize_f32", val |-> self.val.val]
    [] self.case = "Float64" -> [method |-> "serialize_f64", val |-> self.val.val]

\* serde_v8::to_v8 of a MinValue: the engine value the serializer method
\* makes of the primitive; it has no error path
serde_v8_to_v8(x) == OkVal(serialize(x))

\* the held value's own to_v8
Serializable_to_v8(x) ==
  IF x.representable
  THEN OkVal([method |-> "serialize", val |-> x.val])
  ELSE Err("conversion error")

\* to_v8 turning every error of the boxed path into a value
to_v8_swallow(self) ==
  IF self.pkg = "MinValue" THEN serde_v8_to_v8(self)
  ELSE OkVal([method |-> "serialize", val |-> self.val.val])

to_v8(self) ==
  IF self.pkg = "MinValue" THEN serde_v8_to_v8(self)
  ELSE Serializable_to_v8(self.val)

InitPkg ==
  /\ builder = ExtensionBuilderDefault
  /\ exts = <<>>
  /\ opstate = FALSE
  /\ nextId = 0
  /\ table = <<>>
  /\ acc = 0
  /\ log = <<>>
  /\ meta = <<>>
  /\ \E x \in Values : last = Call("value", 0, x, Return(x))

\* to_pkg(x)
ToPkg ==
  /\ last.op = "value"
  /\ last' = Call("to_pkg", 0, last.arg, Return(to_pkg(last.arg)))
  /\ UNCHANGED <<builder, exts, opstate, nextId, table, acc, log, meta>>

\* SerializablePkg::MinValue(MinValue::$minval(x)), written out by a caller
NewMinValue ==
  /\ last.op = "value"
  /\ last.arg.ty \in PrimitiveTypes
  /\ last' = Call("MinValue", 0, last.arg,
                  Return(PkgMinValue(minval(last.arg.ty), last.arg)))
  /\ UNCHANGED <<builder, exts, opstate, nextId, table, acc, log, meta>>

\* pkg.to_v8(scope)
ToV8 ==
  /\ last.op \in {"to_pkg", "MinValue"}
  /\ last' = Call("to_v8", 0, last.ret.val, Return(to_v8(last.ret.val)))
  /\ UNCHANGED <<builder, exts, opstate, nextId, table, acc, log, meta>>

NextPkg == ToPkg \/ NewMinValue \/ ToV8

SpecPkg == InitPkg /\ [][NextPkg]_vars

\* ------------------------------------------------------------ declarations
\* What an Extension was declared with, read off the builder calls it was
\* built from (empty for a default-constructed one).
RECURSIVE Declared(_, _)
Declared(l, op) ==
  IF l = <<>> THEN <<>>
  ELSE (IF Head(l).op = op THEN Head(l).arg ELSE <<>>) \o Declared(Tail(l), op)

RECURSIVE LastDeclared(_, _)
LastDeclared(l, op) ==
  IF l = <<>> THEN None
  ELSE IF l[Len(l)].op = op THEN Some(l[Len(l)].arg)
  ELSE LastDeclared(SubSeq(l, 1, Len(l) - 1), op)

NumCalls(l, op) == Cardinality({i \in DOMAIN l : l[i].op = op})

DeclaredJs(e) == Declared(meta[e].log, "js")
DeclaredOps(e) == Declared(meta[e].log, "ops")
DeclaredState(e) == LastDeclared(meta[e].log, "state")
DeclaredMiddleware(e) == LastDeclared(meta[e].log, "middleware")

\* the last call was `op`, on Extension last.ext
Was(op) == last.op = op
\* ... and the same method had been called on that Extension before
Again == last.arg
\* the last call returned v (it did not panic)
Returned(v) == last.ret.kind = "return" /\ last.ret.val = v
Panicked == last.ret.kind = "panic"

\* ------------------------------------------------------------------ claims

\* C1: on any Extension, built or default-constructed, whatever other
\* init_* calls came before, a second (or later) call of init_ops panics
\* instead of returning a value.
C1_SecondInitOpsPanics ==
  (Was("init_ops") /\ Again) => Panicked

\* a second init_ops on a default-constructed Extension, after other calls
C1_Witness ==
  /\ Was("init_ops") /\ Again
  /\ ~meta[last.ext].built
  /\ opstate

\* C2 as stated: on an Extension built with one op, the first init_ops
\* returns exactly that op and any later call returns no op table (None).
C2_LaterCallReturnsNone ==
  (Was("init_ops") /\ meta[last.ext].built /\ Len(DeclaredOps(last.ext)) = 1)
    => IF Again THEN Returned(None)
                ELSE Returned(Some(DeclaredOps(last.ext)))

\* C2 amended: on an Extension built with one op, the first init_ops
\* returns exactly that op and any later call panics, returning nothing.
C2_FirstReturnsOpLaterPanics ==
  (Was("init_ops") /\ meta[last.ext].built /\ Len(DeclaredOps(last.ext)) = 1)
    => IF Again THEN Panicked
                ELSE /\ ~Panicked
                     /\ last.ret.val.tag = "Some"
                     /\ Len(last.ret.val.val) = 1
                     /\ last.ret.val.val[1] = DeclaredOps(last.ext)[1]

C2_Witness ==
  /\ Was("init_ops") /\ Again
  /\ meta[last.ext].built
  /\ Len(DeclaredOps(last.ext)) = 1

\* C3: on an Extension made by build(), the first init_ops returns a
\* present table equal to the lists passed to ops() since the previous
\* build(), concatenated in call order (present and empty when ops() was
\* never called), and leaves the Extension's op table empty.
C3_FirstInitOpsReturnsTable ==
  (Was("init_ops") /\ ~Again /\ meta[last.ext].built)
    => /\ Returned(Some(DeclaredOps(last.ext)))
       /\ exts[last.ext].ops = None

\* the first init_ops on an Extension declared by two ops() calls
C3_Witness ==
  /\ Was("init_ops") /\ ~Again
  /\ meta[last.ext].built
  /\ NumCalls(meta[last.ext].log, "ops") = 2
  /\ last.ret.val.tag = "Some"
  /\ Len(last.ret.val.val) >= 2

\* C4: every init_js call, wherever it falls among the other init_* calls,
\* returns the lists passed to js() before build(), concatenated in call
\* order (the empty list if none were declared), and changes no field of
\* the Extension.
C4_InitJsRepeatable ==
  Was("init_js")
    => /\ Returned(DeclaredJs(last.ext))
       /\ exts[last.ext] = last.arg

\* init_js after init_ops on an Extension declared by two js() calls
C4_Witness ==
  /\ Was("init_js")
  /\ NumCalls(meta[last.ext].log, "js") = 2
  /\ meta[last.ext].calledOps
  /\ Len(last.ret.val) = 2

\* C5: init_middleware never panics; on an Extension built with a
\* middleware its first call returns that callback and every later call
\* returns None; on an Extension built without one every call returns None.
C5_InitMiddlewareOnce ==
  Was("init_middleware")
    => Returned(IF Again THEN None ELSE DeclaredMiddleware(last.ext))

\* a later init_middleware on an Extension built with a middleware
C5_Witness ==
  /\ Was("init_middleware") /\ Again
  /\ DeclaredMiddleware(last.ext) # None
  /\ Returned(None)

\* what the declared state initializer returns (Ok when none was declared)
DeclaredStateResult(e) ==
  IF DeclaredState(e) = Some("s_err") THEN Err("state init failed") ELSE Ok

\* C7: init_state changes no field of the Extension; with a registered
\* initializer each call invokes it exactly once on the state container
\* and returns its result, Ok or the error; with none it returns Ok and
\* leaves the state container as it was; before or after init_ops alike.
C7_InitStatePropagates ==
  Was("init_state")
    => /\ exts[last.ext] = last.arg.self
       /\ Returned(DeclaredStateResult(last.ext))
       /\ opstate = IF DeclaredState(last.ext) = None
                      THEN last.arg.state ELSE ~last.arg.state

\* a repeated init_state, after init_ops, whose initializer fails
C7_Witness ==
  /\ Was("init_state")
  /\ DeclaredState(last.ext) = Some("s_err")
  /\ meta[last.ext].calledOps
  /\ last.arg.state
  /\ Returned(Err("state init failed"))

\* C8: the result of an init_* call depends on what the Extension was
\* declared with and on earlier calls of the same method only, never on
\* which other init_* methods were called before it; no call panics but a
\* second init_ops.
C8_NoCallOrder ==
  /\ Was("init_js") => Returned(DeclaredJs(last.ext))
  /\ Was("init_middleware")
       => Returned(IF Again THEN None ELSE DeclaredMiddleware(last.ext))
  /\ (Was("init_ops") /\ ~Again)
       => Returned(IF meta[last.ext].built
                     THEN Some(DeclaredOps(last.ext)) ELSE None)
  /\ Was("init_state") => Returned(DeclaredStateResult(last.ext))

\* the documented order reversed: the middleware is fetched last, after
\* init_state and init_ops, and still comes out
C8_Witness ==
  /\ Was("init_middleware") /\ ~Again
  /\ meta[last.ext].calledOps
  /\ opstate
  /\ DeclaredState(last.ext) # None
  /\ last.ret.val.tag = "Some"

\* the build() before the one that made Extension e (0: none)
PrevBuilt(e) ==
  LET S == {p \in 1..(e - 1) : meta[p].built}
  IN  IF S = {} THEN 0 ELSE CHOOSE p \in S : \A q \in S : q <= p

\* build() was just called for the second time in a row: nothing was
\* passed to js() or ops() since the build() before it
BuiltTwiceInARow ==
  /\ Was("build")
  /\ PrevBuilt(last.ext) # 0
  /\ NumCalls(meta[last.ext].log, "js") = 0
  /\ NumCalls(meta[last.ext].log, "ops") = 0

HoldsNothing(x) == x.js_files = Some(<<>>) /\ x.ops = Some(<<>>)

\* C9 as stated: both Extensions of two build() calls in a row hold empty
\* op and source lists (the first is looked at before init_ops empties it).
C9_BothBuildsEmpty ==
  BuiltTwiceInARow
    => /\ HoldsNothing(exts[last.ext])
       /\ ~exts[PrevBuilt(last.ext)].initialized
            => HoldsNothing(exts[PrevBuilt(last.ext)])

\* C9 amended: the second Extension holds empty (present) op and source
\* lists, and the first holds exactly what was accumulated before it.
C9_SecondBuildEmpty ==
  BuiltTwiceInARow
    => /\ HoldsNothing(exts[last.ext])
       /\ exts[PrevBuilt(last.ext)].js_files
            = Some(DeclaredJs(PrevBuilt(last.ext)))
       /\ ~exts[PrevBuilt(last.ext)].initialized
            => exts[PrevBuilt(last.ext)].ops
                 = Some(DeclaredOps(PrevBuilt(last.ext)))

\* two build() calls in a row, the first with a source pair accumulated
C9_Witness ==
  /\ BuiltTwiceInARow
  /\ Len(DeclaredJs(PrevBuilt(last.ext))) = 1
  /\ exts[PrevBuilt(last.ext)].js_files.val # <<>>

\* C10: build() returns an Extension with initialized = false holding
\* exactly the source and op pairs accumulated since the previous build(),
\* in order, and leaves the builder's js and ops lists empty; no builder
\* call changes an Extension that already exists.
C10_BuildDrains ==
  /\ Was("build")
       => /\ exts[last.ext].initialized = FALSE
          /\ exts[last.ext].js_files = Some(DeclaredJs(last.ext))
          /\ exts[last.ext].ops = Some(DeclaredOps(last.ext))
          /\ builder.js = <<>>
          /\ builder.ops = <<>>
  /\ (Was("build") \/ Was("builder"))
       => \A e \in DOMAIN last.arg : exts[e] = last.arg[e]

\* a second build(), with a source pair, after the first Extension was used
C10_Witness ==
  /\ Was("build")
  /\ PrevBuilt(last.ext) # 0
  /\ exts[PrevBuilt(last.ext)].initialized
  /\ Len(DeclaredJs(last.ext)) = 1

Tagged(pair, m) == << pair[1], [pair[2] EXCEPT !.tags = <<m>>] >>

\* C6 as stated: on an Extension built with two ops and a middleware, both
\* callables of the op table init_ops hands to the host carry the tag.
C6_InitOpsHandsOutTagged ==
  (/\ Was("init_ops") /\ ~Again
   /\ Len(DeclaredOps(last.ext)) = 2
   /\ DeclaredMiddleware(last.ext) # None)
    => /\ ~Panicked
       /\ last.ret.val.tag = "Some"
       /\ \A i \in DOMAIN last.ret.val.val :
            last.ret.val.val[i][2].tags = <<DeclaredMiddleware(last.ext).val>>

\* C6 amended: init_ops hands out every callable as it was declared,
\* untagged; the tag is put on by the host, which applies the callback it
\* got from init_middleware to every entry, so that every entry it
\* registers from an Extension with a middleware carries the tag.
C6_HostAppliesMiddleware ==
  /\ (Was("init_ops") /\ ~Panicked /\ last.ret.val.tag = "Some")
       => \A i \in DOMAIN last.ret.val.val : last.ret.val.val[i][2].tags = <<>>
  /\ (Was("host") /\ ~Again /\ DeclaredMiddleware(last.ext) # None)
       => LET d == DeclaredOps(last.ext)
              m == DeclaredMiddleware(last.ext).val
          IN  /\ Len(table) >= Len(d)
              /\ \A i \in DOMAIN d :
                   table[Len(table) - Len(d) + i] = Tagged(d[i], m)

\* the host has set up an Extension built with two ops and a middleware
C6_Witness ==
  /\ Was("host")
  /\ Len(DeclaredOps(last.ext)) = 2
  /\ DeclaredMiddleware(last.ext) # None
  /\ Len(table) = 2
  /\ \A i \in DOMAIN table : table[i][2].tags # <<>>

\* C11: state() and middleware() overwrite: the Extension built after
\* state(f1)..state(fn) and middleware(m1)..middleware(mk) holds fn and mk
\* only; its init_state invokes fn, once, and nothing else, and its
\* init_middleware hands out mk.
C11_LastWriteWins ==
  /\ Was("build")
       => /\ exts[last.ext].opstate_fn = DeclaredState(last.ext)
          /\ exts[last.ext].middleware_fn = DeclaredMiddleware(last.ext)
  /\ (Was("init_state") /\ DeclaredState(last.ext) # None)
       => /\ Returned(DeclaredStateResult(last.ext))
          /\ opstate = ~last.arg.state
  /\ (Was("init_middleware") /\ ~Again)
       => Returned(DeclaredMiddleware(last.ext))

\* init_state on an Extension built after state(s_ok); state(s_err)
C11_Witness ==
  /\ Was("init_state")
  /\ Len(meta[last.ext].log) = 2
  /\ meta[last.ext].log[1] = Logged("state", "s_ok")
  /\ meta[last.ext].log[2] = Logged("state", "s_err")
  /\ Returned(Err("state init failed"))

\* the final '::'-separated segment of the path as it was written
FinalSegment(path) == path.segs[Len(path.segs)]

\* C12: for a path without a generic suffix (any number of leading segments,
\* none included) whose final segment is an op name, op_ident returns exactly
\* that final segment.
C12_FinalSegmentReturned ==
  ( /\ Was("op_ident")
    /\ ~last.arg.spaced
    /\ last.arg.param = None
    /\ starts_with(FinalSegment(last.arg), OpPrefix) )
  => Returned(FinalSegment(last.arg))

\* op_ident("foo::foo::op_bar") returned "op_bar"
C12_Witness ==
  /\ Was("op_ident")
  /\ stringify(last.arg) = <<"f", "o", "o", ":", ":", "f", "o", "o", ":", ":",
                             "o", "p", "_", "b", "a", "r">>
  /\ Returned(<<"o", "p", "_", "b", "a", "r">>)

\* C13: for a path with a trailing generic suffix a::op_name::<T>, whatever
\* the parameter text T (separators and further "::<" suffixes included),
\* op_ident strips the whole suffix and returns "op_name".
C13_GenericSuffixStripped ==
  ( /\ Was("op_ident")
    /\ ~last.arg.spaced
    /\ last.arg.param # None
    /\ starts_with(FinalSegment(last.arg), OpPrefix) )
  => Returned(FinalSegment(last.arg))

\* C14: a path whose final segment, the generic suffix stripped, does not
\* start with "op_" makes op_ident abort; and every name op_ident returns
\* starts with "op_".
C14_NonOpNameAborts ==
  ( /\ Was("op_ident")
    /\ ~last.arg.spaced )
  => /\ ~starts_with(FinalSegment(last.arg), OpPrefix) => Panicked
     /\ ~Panicked => starts_with(last.ret.val, OpPrefix)

\* C15: op_ident("foo :: op_bar < X >") returns "op_bar".
C15_StringifiedGenericPath ==
  ( /\ Was("op_ident")
    /\ stringify(last.arg) = <<"f", "o", "o", " ", ":", ":", " ",
                               "o", "p", "_", "b", "a", "r", " ", "<", " ",
                               "X", " ", ">">> )
  => Returned(<<"o", "p", "_", "b", "a", "r">>)

\* C16: to_pkg selects the encoding from the static type: MinValue, in the
\* case of that type and holding the value, for the twelve primitive types
\* (they take precedence), Serializable holding the value for every other
\* type; and it never fails.
C16_ToPkgSelectsByType ==
  Was("to_pkg")
  => Returned(IF last.arg.ty \in PrimitiveTypes
              THEN PkgMinValue(minval(last.arg.ty), last.arg)
              ELSE PkgSerializable(last.arg))

\* C17: to_v8 of a MinValue package never returns an error; to_v8 of a
\* Serializable package returns the result of the held value's own to_v8,
\* its conversion error included.
C17_ToV8FailsOnlyBoxed ==
  Was("to_v8")
  => /\ last.arg.pkg = "MinValue" => last.ret.val.tag = "Ok"
     /\ last.arg.pkg = "Serializable"
          => /\ Returned(Serializable_to_v8(last.arg.val))
             /\ last.arg.val.representable => last.ret.val.tag = "Ok"
             /\ ~last.arg.val.representable
                  => Returned(Err("conversion error"))

\* to_v8 of a boxed value the engine cannot represent returned its error
C17_Witness ==
  /\ Was("to_v8")
  /\ last.arg.pkg = "Serializable"
  /\ ~last.arg.val.representable
  /\ Returned(Err("conversion error"))

\* where the op box `id` is: in the builder's list, in an Extension's op
\* table, or among the pairs an Extension's init_ops calls have returned
InBuilder(id) ==
  {<<"builder", 0, i>> : i \in {j \in DOMAIN builder.ops : builder.ops[j][2].id = id}}
InExtension(e, id) ==
  IF exts[e].ops.tag = "Some"
  THEN {<<"extension", e, i>> :
          i \in {j \in DOMAIN exts[e].ops.val : exts[e].ops.val[j][2].id = id}}
  ELSE {}
HandedBy(e, id) ==
  {<<"handed", e, i>> :
     i \in {j \in DOMAIN meta[e].handedOps : meta[e].handedOps[j][2].id = id}}
Places(id) ==
  InBuilder(id)
    \cup UNION {InExtension(e, id) \cup HandedBy(e, id) : e \in DOMAIN exts}
\* Extension e is the one built first after the op box `id` went to ops()
BuiltFrom(e, id) ==
  \E i \in DOMAIN DeclaredOps(e) : DeclaredOps(e)[i][2].id = id

\* C18: every op pair passed to ops() is held in exactly one place: by the
\* builder until the next build(), then by the Extension that build() made
\* and no other, until that Extension's init_ops returns it; it is in the
\* result of at most one init_ops call overall.
C18_OpsTransferredOnce ==
  \A id \in 1..nextId :
    /\ Cardinality(Places(id)) = 1
    /\ Cardinality(UNION {HandedBy(e, id) : e \in DOMAIN exts}) <= 1
    /\ \A e \in DOMAIN exts :
         IF BuiltFrom(e, id)
         THEN Places(id) \subseteq InExtension(e, id) \cup HandedBy(e, id)
         ELSE InExtension(e, id) \cup HandedBy(e, id) = {}
    /\ (\A e \in DOMAIN exts : ~BuiltFrom(e, id))
         => Places(id) \subseteq InBuilder(id)

\* two ops went to ops(), build() was called twice and init_ops on both
\* Extensions: the first handed out the two ops, the second none
C18_Witness ==
  /\ Was("init_ops")
  /\ Len(exts) = 2
  /\ meta[1].built /\ meta[2].built
  /\ meta[1].calledOps /\ meta[2].calledOps
  /\ Len(meta[1].handedOps) = 2
  /\ meta[2].handedOps = <<>>

\* C19: an initialized Extension holds no op table; the initialized flag,
\* once set, is never reset; and a step that changes the flag or the op
\* table of an Extension is a call of init_ops on that Extension.
C19_InitializedMonotonic ==
  /\ [](\A e \in DOMAIN exts : exts[e].initialized => exts[e].ops = None)
  /\ [][\A e \in DOMAIN exts :
          /\ exts[e].initialized => exts'[e].initialized
          /\ ( \/ exts'[e].initialized # exts[e].initialized
               \/ exts'[e].ops # exts[e].ops )
               => (last'.op = "init_ops" /\ last'.ext = e)]_vars

\* an initialized Extension on which init_state and init_middleware were
\* called after init_ops
C19_Witness ==
  /\ Was("init_state")
  /\ exts[last.ext].initialized
  /\ exts[last.ext].ops = None
  /\ meta[last.ext].mwTaken
  /\ last.arg.self.initialized
  /\ opstate

\* C20: build() leaves the builder without state initializer and without
\* middleware: an Extension built with no state()/middleware() call since
\* the previous build() has neither, whatever the previous Extension had;
\* its init_state returns Ok and leaves the state container as it was and
\* its init_middleware returns None.
C20_BuildDrainsCallbacks ==
  /\ Was("build")
       => /\ builder.state = None
          /\ builder.middleware = None
          /\ NumCalls(meta[last.ext].log, "state") = 0
               => exts[last.ext].opstate_fn = None
          /\ NumCalls(meta[last.ext].log, "middleware") = 0
               => exts[last.ext].middleware_fn = None
  /\ ( /\ Was("init_state")
       /\ meta[last.ext].built
       /\ NumCalls(meta[last.ext].log, "state") = 0 )
       => /\ Returned(Ok)
          /\ opstate = last.arg.state
  /\ ( /\ Was("init_middleware")
       /\ meta[last.ext].built
       /\ NumCalls(meta[last.ext].log, "middleware") = 0 )
       => Returned(None)

\* init_state on the second of two Extensions built in a row, the first of
\* which was built with a state initializer
C20_Witness ==
  /\ Was("init_state")
  /\ PrevBuilt(last.ext) # 0
  /\ DeclaredState(PrevBuilt(last.ext)) # None
  /\ meta[last.ext].log = <<>>
  /\ Returned(Ok)
  /\ opstate = last.arg.state

====
